---- MODULE Spec2Model ----
(***************************************************************************)
(* A model of the tcp server of micro-server-tcp (src/tcp.go) and of its   *)
(* subscriber dispatch (src/unnamed/part_000).                              *)
(*                                                                         *)
(* The server is modelled as a set of threads: the callers of the public   *)
(* API (Subscribe, Start, Register, Deregister, Stop), the heartbeat       *)
(* goroutine launched by Start ("hb") and the acceptor goroutine (serve).  *)
(* Every critical section of the RWMutex is one atomic step, except the    *)
(* two loops that run under the exclusive lock (the arming loop of         *)
(* Register and the unsubscribe loop of Deregister), which are modelled    *)
(* iteration by iteration with the lock held.                              *)
(***************************************************************************)
EXTENDS Integers, Sequences, FiniteSets, TLC

(***************************************************************************)
(* Bounds and program constants                                            *)
(***************************************************************************)

\* the caller threads that use the public API
Callers == {"c1", "c2"}

\* the caller that drives the whole life cycle (Subscribe, Start, Register,
\* Deregister, Stop) beside the heartbeat and the acceptor in Spec; RaceSpec
\* has every caller call Subscribe, Register and Deregister concurrently
LifecycleCallers == {"c1"}

\* the heartbeat goroutine of Start
HB == "hb"

Threads == Callers \cup {HB}

\* the tcpSubscriber objects the callers may hand to Subscribe
Subs == {"s1", "s2"}

\* tcpSubscriber.topic; Register sorts the advertised subscribers by it
SubTopic == [s \in Subs |-> IF s = "s1" THEN 1 ELSE 2]

\* tcpSubscriber.opts.Internal
SubInternal == [s \in Subs |-> s = "s2"]

\* tcpSubscriber.opts.Context ("nil" when the subscriber has no override)
SubContext == [s \in Subs |-> IF s = "s1" THEN "cx1" ELSE "nil"]

\* h.opts.Context, the service's default context
DefaultContext == "ctx0"

\* how many bus Subscribe calls may fail in one behaviour
MaxBusFailures == 1

\* how many transient accept failures the listener may produce
MaxTransient == 2

\* how many handlers the dispatched subscriber may have
MaxHandlers == 3

\* what a handler may return: nil or an error with one of these messages
HandlerErrors == {"e1", "e2"}

\* config.RegisterInterval; the ticker of the heartbeat fires only if it is > 0
\* (with 0 the behaviours are those in which no tick is ever taken)
RegisterInterval == 1

\* serve: tempDelay = 5 * time.Millisecond, in milliseconds
InitialDelayMs == 5

\* serve: max := 1 * time.Second, in milliseconds
MaxDelayMs == 1000

\* h.rsvc == nil
NoSvc == [nil |-> TRUE, eps |-> <<>>]
\* no call has returned yet
NoRet == [op |-> "none", err |-> FALSE]

\* the locals of a call. Register: rsvc != nil, service, registered, and
\* whether h.registered was true when the call was made. Subscribe: sub.
\* The heartbeat: registered (of its tick), closeErr (ts.Close() != nil).
NoLocal == [rsvc |-> FALSE, service |-> NoSvc, registered |-> FALSE, atCall |-> FALSE,
            sub |-> "none", closeErr |-> FALSE]

VARIABLES
    \* tcpServer fields
    registry,       \* the keys of h.subscribers
    bindings,       \* h.subscribers[sb]: the recorded broker.Subscriber handles
    registered,     \* h.registered
    rsvc,           \* h.rsvc: the cached register.Service (NoSvc when nil)
    mu,             \* the holder of the exclusive lock of h.RWMutex, or "free"
    \* external collaborators
    directory,      \* the service record the directory holds (NoSvc when none)
    busConnected,   \* Broker.Connect has been called and Disconnect has not
    busLive,        \* the bus bindings subscribed and not yet unsubscribed
    subscribeCount, \* per subscription: successful Broker.Subscribe calls so far
    busFailures,    \* failed Broker.Subscribe calls so far
    listener,       \* "none", "open" or "closed"
    \* threads
    pc,             \* per thread: where it is
    ctx,            \* per thread: who called the Register/Deregister it runs
    loc,            \* per thread: the locals of the call it runs
    ret,            \* per caller: its last call and the result, until its next call
    hbRerr,         \* heartbeat: rerr != nil of the tick being processed
    \* Start, Stop and the exit channel
    started,        \* a Start call has launched the background goroutines
    hbCh,           \* heartbeat: the caller whose reply channel ch it holds
    exitTaker,      \* who received the request sent on h.exit
    \* loops under the exclusive lock
    armTodo,        \* Register: subscribers the arming loop has yet to visit
    deregTodo,      \* Deregister: subscribers the loop has yet to visit
    subCtx,         \* Deregister: the loop's subCtx variable
    unsubPending,   \* Deregister: unsubscribe goroutines spawned, not yet run
    unsubCalls,     \* Deregister: the Unsubscribe calls its goroutines have made
                    \* (binding and context argument), until it returns
    \* the acceptor goroutine
    svPc,           \* "off", "accept", "sleep" or "done"
    tempDelay,      \* serve's tempDelay, in milliseconds
    svLast,         \* outcome of the last accept: "none", "ok" or "temp"
    transients,     \* transient accept failures so far
    \* one dispatch of an event by the handler createSubHandler returns
    handlers,       \* sb.handlers: per handler, what it returns and whether
                    \* the event's body decodes into its request type
    codecKnown,     \* opts.Codecs has the event's Content-Type
    dPc,            \* "idle", "start", "launch", "collect" or "done"
    dI,             \* the index of the launch loop (from 1)
    running,        \* handler goroutines launched that have not sent yet
    invoked,        \* per handler: how many times it was called
    results,        \* the buffered channel results, capacity len(sb.handlers)
    received,       \* the index of the collection loop (results received)
    errors,         \* the slice errors
    outcome         \* what the dispatch returned

srvVars == <<registry, bindings, registered, rsvc, mu>>
extVars == <<directory, busConnected, busLive, subscribeCount, busFailures, listener>>
thrVars == <<pc, ctx, loc, ret, hbRerr>>
runVars == <<started, hbCh, exitTaker>>
loopVars == <<armTodo, deregTodo, subCtx, unsubPending, unsubCalls>>
serveVars == <<svPc, tempDelay, svLast, transients>>

dispVars == <<handlers, codecKnown, dPc, dI, running, invoked, results, received,
              errors, outcome>>

vars == <<srvVars, extVars, thrVars, runVars, loopVars, serveVars, dispVars>>

(***************************************************************************)
(* Helpers                                                                 *)
(***************************************************************************)

Min(a, b) == IF a < b THEN a ELSE b

\* sort.Slice(subscriberList, topic descending) of the non internal subscribers
RECURSIVE SortDesc(_)
SortDesc(S) ==
    IF S = {} THEN <<>>
    ELSE LET m == CHOOSE x \in S : \A y \in S : SubTopic[y] <= SubTopic[x]
         IN  <<m>> \o SortDesc(S \ {m})

\* the subscribers whose endpoints Register appends to the service
Advertised(reg) == {s \in reg : ~SubInternal[s]}

\* the service Register builds from the registry
BuildService(reg) == [nil |-> FALSE, eps |-> SortDesc(Advertised(reg))]

\* ArmSet with the advertisement's filter applied to the arming loop as well
ArmSetAdvertisedOnly(reg) == Advertised(reg)

\* the subscribers the arming loop of Register visits
ArmSet(reg) == reg

\* the bus bindings of subscription s that are live
LiveOf(s) == {b \in busLive : b[1] = s}

Free == mu = "free"

(***************************************************************************)
(* Initial state: NewServer, with a handler installed by Handle            *)
(***************************************************************************)

\* every field but the registry, as NewServer leaves it
ServerFresh ==
    /\ bindings = [s \in Subs |-> <<>>]
    /\ registered = FALSE
    /\ rsvc = NoSvc
    /\ mu = "free"
    /\ directory = NoSvc
    /\ busConnected = FALSE
    /\ busLive = {}
    /\ subscribeCount = [s \in Subs |-> 0]
    /\ busFailures = 0
    /\ listener = "none"
    /\ pc = [t \in Threads |-> IF t = HB THEN "off" ELSE "idle"]
    /\ ctx = [t \in Threads |-> "none"]
    /\ loc = [t \in Threads |-> NoLocal]
    /\ ret = [t \in Callers |-> NoRet]
    /\ hbRerr = FALSE
    /\ started = FALSE
    /\ hbCh = "none"
    /\ exitTaker = "none"
    /\ armTodo = {}
    /\ deregTodo = {}
    /\ subCtx = "nil"
    /\ unsubPending = {}
    /\ unsubCalls = {}
    /\ svPc = "off"
    /\ tempDelay = 0
    /\ svLast = "none"
    /\ transients = 0

ServerInit ==
    /\ registry = {}
    /\ ServerFresh

\* no event is being dispatched
DispatchIdle ==
    /\ handlers = <<>>
    /\ codecKnown = FALSE
    /\ dPc = "idle"
    /\ dI = 0
    /\ running = {}
    /\ invoked = <<>>
    /\ results = <<>>
    /\ received = 0
    /\ errors = <<>>
    /\ outcome = [done |-> FALSE, err |-> <<>>]

Init == ServerInit /\ DispatchIdle

(***************************************************************************)
(* Subscribe                                                               *)
(***************************************************************************)

\* Subscribe returns to its caller
SubDone(t, err) ==
    /\ ret' = [ret EXCEPT ![t] = [op |-> "Subscribe", err |-> err]]
    /\ pc' = [pc EXCEPT ![t] = "idle"]
    /\ loc' = [loc EXCEPT ![t] = NoLocal]

\* a caller starts a call: the result of its last call is dropped
CallBegins(t) == ret' = [ret EXCEPT ![t] = NoRet]

\* a caller calls Subscribe with sb; the type, handler count and handler
\* signatures are checked before the lock is taken
CallSubscribe(t, sb) ==
    /\ t \in Callers
    /\ pc[t] = "idle"
    /\ pc' = [pc EXCEPT ![t] = "sub_enter"]
    /\ loc' = [loc EXCEPT ![t] = [NoLocal EXCEPT !.sub = sb]]
    /\ CallBegins(t)
    /\ UNCHANGED <<ctx, hbRerr>>
    /\ UNCHANGED <<srvVars, extVars, runVars, loopVars, serveVars>>
    /\ UNCHANGED dispVars

\* Subscribe with the lookup in h.subscribers left out
SubscribeNoLookup(t) ==
    /\ pc[t] = "sub_enter"
    /\ Free
    /\ registry' = registry \cup {loc[t].sub}
    /\ bindings' = [bindings EXCEPT ![loc[t].sub] = <<>>]
    /\ SubDone(t, FALSE)
    /\ UNCHANGED <<registered, rsvc, mu, ctx, hbRerr>>
    /\ UNCHANGED <<extVars, runVars, loopVars, serveVars>>
    /\ UNCHANGED dispVars

\* Subscribe, the critical section: a subscriber that is already a key of
\* h.subscribers is rejected and nothing changes; else h.subscribers[sub] = nil
Subscribe(t) ==
    /\ pc[t] = "sub_enter"
    /\ Free
    /\ IF loc[t].sub \in registry
       THEN /\ SubDone(t, TRUE)
            /\ UNCHANGED <<registry, bindings>>
       ELSE /\ registry' = registry \cup {loc[t].sub}
            /\ bindings' = [bindings EXCEPT ![loc[t].sub] = <<>>]
            /\ SubDone(t, FALSE)
    /\ UNCHANGED <<registered, rsvc, mu, ctx, hbRerr>>
    /\ UNCHANGED <<extVars, runVars, loopVars, serveVars>>
    /\ UNCHANGED dispVars

(***************************************************************************)
(* Register                                                                *)
(***************************************************************************)

\* where a Register call returns to: its API caller, Start, or the heartbeat
RegDone(t, err) ==
    /\ ret' = IF t \in Callers THEN [ret EXCEPT ![t] = [op |-> "Register", err |-> err]] ELSE ret
    /\ pc' = [pc EXCEPT ![t] = CASE ctx[t] = "api" -> "idle"
                                 [] ctx[t] = "start" -> "start_launch"
                                 [] OTHER -> "select"]
    /\ ctx' = [ctx EXCEPT ![t] = "none"]
    /\ loc' = [loc EXCEPT ![t] = NoLocal]
    /\ hbRerr' = IF t = HB THEN FALSE ELSE hbRerr

\* a Register call is made by thread t on behalf of c
RegCall(t, c) ==
    /\ pc' = [pc EXCEPT ![t] = "reg_enter"]
    /\ ctx' = [ctx EXCEPT ![t] = c]
    /\ loc' = [loc EXCEPT ![t] = [NoLocal EXCEPT !.atCall = registered]]

\* a caller calls Register
CallRegister(t) ==
    /\ t \in Callers
    /\ pc[t] = "idle"
    /\ RegCall(t, "api")
    /\ CallBegins(t)
    /\ UNCHANGED hbRerr
    /\ UNCHANGED <<srvVars, extVars, runVars, loopVars, serveVars>>
    /\ UNCHANGED dispVars

\* RegEnter with the cached service ignored (the service is always rebuilt)
RegEnterNoCache(t) ==
    /\ pc[t] = "reg_enter"
    /\ Free
    /\ loc' = [loc EXCEPT ![t].rsvc = FALSE]
    /\ pc' = [pc EXCEPT ![t] = "reg_build"]
    /\ UNCHANGED <<ctx, ret, hbRerr>>
    /\ UNCHANGED <<srvVars, extVars, runVars, loopVars, serveVars>>
    /\ UNCHANGED dispVars

\* Register, first critical section: rsvc := h.rsvc
RegEnter(t) ==
    /\ pc[t] = "reg_enter"
    /\ Free
    /\ loc' = [loc EXCEPT ![t].rsvc = (rsvc # NoSvc)]
    /\ pc' = [pc EXCEPT ![t] = IF rsvc # NoSvc THEN "reg_warm" ELSE "reg_build"]
    /\ UNCHANGED <<ctx, ret, hbRerr>>
    /\ UNCHANGED <<srvVars, extVars, runVars, loopVars, serveVars>>
    /\ UNCHANGED dispVars

\* Register with a cached service: re-advertise it and return
RegWarm(t) ==
    /\ pc[t] = "reg_warm"
    /\ \E ok \in BOOLEAN :
          /\ directory' = IF ok THEN rsvc ELSE directory
          /\ RegDone(t, ~ok)
    /\ UNCHANGED <<busConnected, busLive, subscribeCount, busFailures, listener>>
    /\ UNCHANGED <<srvVars, runVars, loopVars, serveVars>>
    /\ UNCHANGED dispVars

\* Register without a cached service: NewRegisterService, then the endpoint
\* list is built from the registry under the lock
RegBuild(t) ==
    /\ pc[t] = "reg_build"
    /\ Free
    /\ \E ok \in BOOLEAN :
          IF ok
          THEN /\ loc' = [loc EXCEPT ![t].service = BuildService(registry)]
               /\ pc' = [pc EXCEPT ![t] = "reg_read"]
               /\ UNCHANGED <<ctx, ret, hbRerr>>
          ELSE RegDone(t, TRUE)
    /\ UNCHANGED <<srvVars, extVars, runVars, loopVars, serveVars>>
    /\ UNCHANGED dispVars

\* Register: registered := h.registered, under the read lock
RegRead(t) ==
    /\ pc[t] = "reg_read"
    /\ Free
    /\ loc' = [loc EXCEPT ![t].registered = registered]
    /\ pc' = [pc EXCEPT ![t] = "reg_advertise"]
    /\ UNCHANGED <<ctx, ret, hbRerr>>
    /\ UNCHANGED <<srvVars, extVars, runVars, loopVars, serveVars>>
    /\ UNCHANGED dispVars

\* Register: DefaultRegisterFunc(service); return if it was registered already
RegAdvertise(t) ==
    /\ pc[t] = "reg_advertise"
    /\ \E ok \in BOOLEAN :
          IF ~ok
          THEN /\ RegDone(t, TRUE)
               /\ UNCHANGED directory
          ELSE /\ directory' = loc[t].service
               /\ IF loc[t].registered
                  THEN RegDone(t, FALSE)
                  ELSE /\ pc' = [pc EXCEPT ![t] = "reg_lock"]
                       /\ UNCHANGED <<ctx, loc, ret, hbRerr>>
    /\ UNCHANGED <<busConnected, busLive, subscribeCount, busFailures, listener>>
    /\ UNCHANGED <<srvVars, runVars, loopVars, serveVars>>
    /\ UNCHANGED dispVars

\* RegLock without the second check of h.registered under the lock
RegLockNoRecheck(t) ==
    /\ pc[t] = "reg_lock"
    /\ Free
    /\ mu' = t
    /\ armTodo' = ArmSet(registry)
    /\ pc' = [pc EXCEPT ![t] = "reg_arm"]
    /\ UNCHANGED <<ctx, loc, ret, hbRerr>>
    /\ UNCHANGED <<registry, bindings, registered, rsvc>>
    /\ UNCHANGED <<deregTodo, subCtx, unsubPending, unsubCalls>>
    /\ UNCHANGED <<extVars, runVars, serveVars>>
    /\ UNCHANGED dispVars

\* Register: take the exclusive lock, check h.registered again
RegLock(t) ==
    /\ pc[t] = "reg_lock"
    /\ Free
    /\ IF registered
       THEN /\ RegDone(t, FALSE)
            /\ UNCHANGED <<mu, armTodo>>
       ELSE /\ mu' = t
            /\ armTodo' = ArmSet(registry)
            /\ pc' = [pc EXCEPT ![t] = "reg_arm"]
            /\ UNCHANGED <<ctx, loc, ret, hbRerr>>
    /\ UNCHANGED <<registry, bindings, registered, rsvc>>
    /\ UNCHANGED <<deregTodo, subCtx, unsubPending, unsubCalls>>
    /\ UNCHANGED <<extVars, runVars, serveVars>>
    /\ UNCHANGED dispVars

\* Register, one iteration of the arming loop: Broker.Subscribe for one
\* subscriber (the map is ranged over in any order). A failure returns at
\* once, with the bindings recorded so far left in place.
RegArm(t) ==
    /\ pc[t] = "reg_arm"
    /\ mu = t
    /\ \E sb \in armTodo :
          \/ /\ LET b == <<sb, subscribeCount[sb] + 1>>
                IN  /\ busLive' = busLive \cup {b}
                    /\ bindings' = [bindings EXCEPT ![sb] = <<b>>]
             /\ subscribeCount' = [subscribeCount EXCEPT ![sb] = @ + 1]
             /\ armTodo' = armTodo \ {sb}
             /\ UNCHANGED <<mu, busFailures, thrVars>>
          \/ /\ busFailures < MaxBusFailures
             /\ busFailures' = busFailures + 1
             /\ mu' = "free"
             /\ armTodo' = {}
             /\ RegDone(t, TRUE)
             /\ UNCHANGED <<busLive, bindings, subscribeCount>>
    /\ UNCHANGED <<registry, registered, rsvc>>
    /\ UNCHANGED <<directory, busConnected, listener>>
    /\ UNCHANGED <<deregTodo, subCtx, unsubPending, unsubCalls>>
    /\ UNCHANGED <<runVars, serveVars>>
    /\ UNCHANGED dispVars

\* Register, after the loop: h.registered = true, h.rsvc = service
RegCommit(t) ==
    /\ pc[t] = "reg_arm"
    /\ mu = t
    /\ armTodo = {}
    /\ registered' = TRUE
    /\ rsvc' = loc[t].service
    /\ mu' = "free"
    /\ RegDone(t, FALSE)
    /\ UNCHANGED <<registry, bindings>>
    /\ UNCHANGED <<extVars, runVars, loopVars, serveVars>>
    /\ UNCHANGED dispVars

(***************************************************************************)
(* Deregister                                                              *)
(***************************************************************************)

\* where a Deregister call returns to. The heartbeat's tick goes on to call
\* Register after its Deregister; its exit path goes on to Disconnect.
DeregDone(t, err) ==
    /\ ret' = IF t \in Callers THEN [ret EXCEPT ![t] = [op |-> "Deregister", err |-> err]] ELSE ret
    /\ IF ctx[t] = "tick"
       THEN RegCall(t, "tick")
       ELSE /\ pc' = [pc EXCEPT ![t] = IF ctx[t] = "exit" THEN "hb_disconnect" ELSE "idle"]
            /\ ctx' = [ctx EXCEPT ![t] = "none"]
            /\ UNCHANGED loc
    /\ UNCHANGED hbRerr

\* a caller calls Deregister
CallDeregister(t) ==
    /\ t \in Callers
    /\ pc[t] = "idle"
    /\ pc' = [pc EXCEPT ![t] = "dereg_enter"]
    /\ ctx' = [ctx EXCEPT ![t] = "api"]
    /\ CallBegins(t)
    /\ UNCHANGED <<loc, hbRerr>>
    /\ UNCHANGED <<srvVars, extVars, runVars, loopVars, serveVars>>
    /\ UNCHANGED dispVars

\* Deregister: config := h.opts under the lock, then NewRegisterService
DeregEnter(t) ==
    /\ pc[t] = "dereg_enter"
    /\ Free
    /\ \E ok \in BOOLEAN :
          IF ok
          THEN /\ pc' = [pc EXCEPT ![t] = "dereg_withdraw"]
               /\ UNCHANGED <<ctx, loc, ret, hbRerr>>
          ELSE DeregDone(t, TRUE)
    /\ UNCHANGED <<srvVars, extVars, runVars, loopVars, serveVars>>
    /\ UNCHANGED dispVars

\* Deregister: DefaultDeregisterFunc, whatever h.registered is
DeregWithdraw(t) ==
    /\ pc[t] = "dereg_withdraw"
    /\ \E ok \in BOOLEAN :
          IF ok
          THEN /\ directory' = NoSvc
               /\ pc' = [pc EXCEPT ![t] = "dereg_lock"]
               /\ UNCHANGED <<ctx, loc, ret, hbRerr>>
          ELSE /\ DeregDone(t, TRUE)
               /\ UNCHANGED directory
    /\ UNCHANGED <<busConnected, busLive, subscribeCount, busFailures, listener>>
    /\ UNCHANGED <<srvVars, runVars, loopVars, serveVars>>
    /\ UNCHANGED dispVars

\* DeregLock with the check of h.registered left out: the unsubscribe loop
\* runs on every call
DeregLockNoCheck(t) ==
    /\ pc[t] = "dereg_lock"
    /\ Free
    /\ registered' = FALSE
    /\ mu' = t
    /\ subCtx' = DefaultContext
    /\ deregTodo' = registry
    /\ pc' = [pc EXCEPT ![t] = "dereg_loop"]
    /\ UNCHANGED <<ctx, loc, ret, hbRerr>>
    /\ UNCHANGED <<registry, bindings, rsvc>>
    /\ UNCHANGED <<armTodo, unsubPending, unsubCalls>>
    /\ UNCHANGED <<extVars, runVars, serveVars>>
    /\ UNCHANGED dispVars

\* Deregister: take the lock; return if not registered, else clear the flag
\* and start the unsubscribe loop with subCtx := h.opts.Context
DeregLock(t) ==
    /\ pc[t] = "dereg_lock"
    /\ Free
    /\ IF ~registered
       THEN /\ DeregDone(t, FALSE)
            /\ UNCHANGED <<registered, mu, deregTodo, subCtx>>
       ELSE /\ registered' = FALSE
            /\ mu' = t
            /\ subCtx' = DefaultContext
            /\ deregTodo' = registry
            /\ pc' = [pc EXCEPT ![t] = "dereg_loop"]
            /\ UNCHANGED <<ctx, loc, ret, hbRerr>>
    /\ UNCHANGED <<registry, bindings, rsvc>>
    /\ UNCHANGED <<armTodo, unsubPending, unsubCalls>>
    /\ UNCHANGED <<extVars, runVars, serveVars>>
    /\ UNCHANGED dispVars

\* Deregister, one iteration of the loop over h.subscribers: the shared
\* subCtx is overwritten if the subscriber has a context, one goroutine per
\* recorded binding is spawned, and the record is cleared
DeregVisit(t) ==
    /\ pc[t] = "dereg_loop"
    /\ mu = t
    /\ \E sb \in deregTodo :
          /\ subCtx' = IF SubContext[sb] # "nil" THEN SubContext[sb] ELSE subCtx
          /\ unsubPending' = unsubPending \cup {bindings[sb][i] : i \in 1..Len(bindings[sb])}
          /\ bindings' = [bindings EXCEPT ![sb] = <<>>]
          /\ deregTodo' = deregTodo \ {sb}
    /\ UNCHANGED <<registry, registered, rsvc, mu>>
    /\ UNCHANGED <<armTodo, unsubCalls>>
    /\ UNCHANGED <<extVars, thrVars, runVars, serveVars>>
    /\ UNCHANGED dispVars

\* an unsubscribe goroutine of Deregister runs: s.Unsubscribe(subCtx), with
\* the value subCtx has when the goroutine reads it; a failure is only logged
UnsubTask(b) ==
    /\ b \in unsubPending
    /\ \E ok \in BOOLEAN :
          busLive' = IF ok THEN busLive \ {b} ELSE busLive
    /\ unsubPending' = unsubPending \ {b}
    /\ unsubCalls' = unsubCalls \cup {[binding |-> b, ctx |-> subCtx]}
    /\ UNCHANGED <<directory, busConnected, subscribeCount, busFailures, listener>>
    /\ UNCHANGED <<armTodo, deregTodo, subCtx>>
    /\ UNCHANGED <<srvVars, thrVars, runVars, serveVars>>
    /\ UNCHANGED dispVars

\* Deregister: wg.Wait(), unlock, return nil
DeregWait(t) ==
    /\ pc[t] = "dereg_loop"
    /\ mu = t
    /\ deregTodo = {}
    /\ unsubPending = {}
    /\ mu' = "free"
    /\ unsubCalls' = {}
    /\ DeregDone(t, FALSE)
    /\ UNCHANGED <<registry, bindings, registered, rsvc>>
    /\ UNCHANGED <<armTodo, deregTodo, subCtx, unsubPending>>
    /\ UNCHANGED <<extVars, runVars, serveVars>>
    /\ UNCHANGED dispVars

(***************************************************************************)
(* Start, Stop and the heartbeat goroutine                                 *)
(***************************************************************************)

\* an API call of a caller returns
ApiDone(t, op, err) ==
    /\ ret' = [ret EXCEPT ![t] = [op |-> op, err |-> err]]
    /\ pc' = [pc EXCEPT ![t] = "idle"]

\* Start: acquire the listener (getListener, tls.Listen or net.Listen) and
\* record its address under the lock
StartListen(t) ==
    /\ t \in Callers
    /\ pc[t] = "idle"
    /\ ~started
    /\ Free
    /\ \E ok \in BOOLEAN :
          IF ok
          THEN /\ listener' = "open"
               /\ pc' = [pc EXCEPT ![t] = "start_connect"]
               /\ CallBegins(t)
          ELSE /\ ApiDone(t, "Start", TRUE)
               /\ UNCHANGED listener
    /\ UNCHANGED <<directory, busConnected, busLive, subscribeCount, busFailures>>
    /\ UNCHANGED <<ctx, loc, hbRerr>>
    /\ UNCHANGED <<srvVars, runVars, loopVars, serveVars>>
    /\ UNCHANGED dispVars

\* Start: Broker.Connect, then the call of Register
StartConnect(t) ==
    /\ pc[t] = "start_connect"
    /\ \E ok \in BOOLEAN :
          IF ok
          THEN /\ busConnected' = TRUE
               /\ RegCall(t, "start")
               /\ UNCHANGED ret
          ELSE /\ ApiDone(t, "Start", TRUE)
               /\ UNCHANGED <<busConnected, ctx, loc>>
    /\ UNCHANGED <<directory, busLive, subscribeCount, busFailures, listener>>
    /\ UNCHANGED hbRerr
    /\ UNCHANGED <<srvVars, runVars, loopVars, serveVars>>
    /\ UNCHANGED dispVars

\* StartLaunch with the goroutines started before the handler's type is
\* checked
StartLaunchBeforeCheck(t) ==
    /\ pc[t] = "start_launch"
    /\ IF ret[t].err
       THEN /\ ApiDone(t, "Start", TRUE)
            /\ UNCHANGED <<started, svPc, tempDelay>>
       ELSE \E handlerOk \in BOOLEAN :
               /\ ret' = [ret EXCEPT ![t] = [op |-> "Start", err |-> ~handlerOk]]
               /\ pc' = [pc EXCEPT ![t] = "idle", ![HB] = "hb_init"]
               /\ svPc' = "accept"
               /\ tempDelay' = 0
               /\ started' = TRUE
    /\ UNCHANGED <<ctx, loc, hbRerr>>
    /\ UNCHANGED <<hbCh, exitTaker>>
    /\ UNCHANGED <<svLast, transients>>
    /\ UNCHANGED <<srvVars, extVars, loopVars>>
    /\ UNCHANGED dispVars

\* Start, after Register: return its error; check the handler's type; then
\* go h.serve(ts, handle) and go func() { heartbeat }
StartLaunch(t) ==
    /\ pc[t] = "start_launch"
    /\ IF ret[t].err
       THEN /\ ApiDone(t, "Start", TRUE)
            /\ UNCHANGED <<started, svPc, tempDelay>>
       ELSE \E handlerOk \in BOOLEAN :
               IF handlerOk
               THEN /\ ret' = [ret EXCEPT ![t] = [op |-> "Start", err |-> FALSE]]
                    /\ pc' = [pc EXCEPT ![t] = "idle", ![HB] = "hb_init"]
                    /\ svPc' = "accept"
                    /\ tempDelay' = 0
                    /\ started' = TRUE
               ELSE /\ ApiDone(t, "Start", TRUE)
                    /\ UNCHANGED <<started, svPc, tempDelay>>
    /\ UNCHANGED <<ctx, loc, hbRerr>>
    /\ UNCHANGED <<hbCh, exitTaker>>
    /\ UNCHANGED <<svLast, transients>>
    /\ UNCHANGED <<srvVars, extVars, loopVars>>
    /\ UNCHANGED dispVars

\* the callers blocked in Stop on the send h.exit <- ch
ExitSenders == {t \in Callers : pc[t] = "stop_send"}

\* the heartbeat goroutine receives ch from h.exit and leaves its loop
HbTakeExit(t) ==
    /\ pc' = [pc EXCEPT ![t] = "stop_wait", ![HB] = "hb_close"]
    /\ hbCh' = t
    /\ exitTaker' = HB

\* Stop: ch := make(chan error); h.exit <- ch. The send completes at once
\* when the heartbeat goroutine is blocked in its select; otherwise the
\* caller blocks until some goroutine receives from h.exit.
StopSend(t) ==
    /\ t \in Callers
    /\ pc[t] = "idle"
    /\ started
    /\ exitTaker = "none"
    /\ ExitSenders = {}
    /\ IF pc[HB] = "select"
       THEN HbTakeExit(t)
       ELSE /\ pc' = [pc EXCEPT ![t] = "stop_send"]
            /\ UNCHANGED <<hbCh, exitTaker>>
    /\ CallBegins(t)
    /\ UNCHANGED <<ctx, loc, hbRerr>>
    /\ UNCHANGED started
    /\ UNCHANGED <<srvVars, extVars, loopVars, serveVars>>
    /\ UNCHANGED dispVars

\* heartbeat: t := new(time.Ticker) or time.NewTicker, then the first select
HbInit ==
    /\ pc[HB] = "hb_init"
    /\ pc' = [pc EXCEPT ![HB] = "select"]
    /\ UNCHANGED <<ctx, loc, ret, hbRerr>>
    /\ UNCHANGED <<srvVars, extVars, runVars, loopVars, serveVars>>
    /\ UNCHANGED dispVars

\* heartbeat, case <-t.C: the tick is received, the heartbeat leaves its
\* select and reads registered := h.registered under the read lock
HbTick ==
    /\ pc[HB] = "select"
    /\ RegisterInterval > 0
    /\ Free
    /\ pc' = [pc EXCEPT ![HB] = "hb_check"]
    /\ loc' = [loc EXCEPT ![HB] = [NoLocal EXCEPT !.registered = registered]]
    /\ UNCHANGED <<ctx, ret, hbRerr>>
    /\ UNCHANGED <<srvVars, extVars, runVars, loopVars, serveVars>>
    /\ UNCHANGED dispVars

\* heartbeat: rerr := RegisterCheck(ctx), outside the lock, then on the
\* value of registered read before: Deregister (unhealthy and registered),
\* continue to the select (unhealthy and not registered) or Register
HbCheck ==
    /\ pc[HB] = "hb_check"
    /\ \E rerr \in BOOLEAN :
          IF rerr /\ loc[HB].registered
          THEN /\ pc' = [pc EXCEPT ![HB] = "dereg_enter"]
               /\ ctx' = [ctx EXCEPT ![HB] = "tick"]
               /\ loc' = [loc EXCEPT ![HB] = NoLocal]
               /\ hbRerr' = TRUE
          ELSE IF rerr /\ ~loc[HB].registered
          THEN /\ pc' = [pc EXCEPT ![HB] = "select"]
               /\ loc' = [loc EXCEPT ![HB] = NoLocal]
               /\ UNCHANGED <<ctx, hbRerr>>
          ELSE /\ RegCall(HB, "tick")
               /\ hbRerr' = FALSE
    /\ UNCHANGED ret
    /\ UNCHANGED <<srvVars, extVars, runVars, loopVars, serveVars>>
    /\ UNCHANGED dispVars

\* heartbeat, case ch = <-h.exit with a caller blocked in Stop
HbRecvExit ==
    /\ pc[HB] = "select"
    /\ \E t \in ExitSenders : HbTakeExit(t)
    /\ UNCHANGED <<ctx, loc, ret, hbRerr>>
    /\ UNCHANGED started
    /\ UNCHANGED <<srvVars, extVars, loopVars, serveVars>>
    /\ UNCHANGED dispVars

\* heartbeat after the loop, the operand of ch <- ts.Close(): the listener
\* is closed and the result kept for the send
HbClose ==
    /\ pc[HB] = "hb_close"
    /\ listener' = "closed"
    /\ \E closeErr \in BOOLEAN :
          loc' = [loc EXCEPT ![HB] = [NoLocal EXCEPT !.closeErr = closeErr]]
    /\ pc' = [pc EXCEPT ![HB] = "hb_reply"]
    /\ UNCHANGED <<ctx, ret, hbRerr>>
    /\ UNCHANGED <<directory, busConnected, busLive, subscribeCount, busFailures>>
    /\ UNCHANGED <<srvVars, runVars, loopVars, serveVars>>
    /\ UNCHANGED dispVars

\* heartbeat, the send of ch <- ts.Close(): Stop, blocked on <-ch, receives
\* the result and returns it; the heartbeat goes on to call Deregister
HbReply ==
    /\ pc[HB] = "hb_reply"
    /\ pc[hbCh] = "stop_wait"
    /\ ret' = [ret EXCEPT ![hbCh] = [op |-> "Stop", err |-> loc[HB].closeErr]]
    /\ pc' = [pc EXCEPT ![hbCh] = "idle", ![HB] = "dereg_enter"]
    /\ ctx' = [ctx EXCEPT ![HB] = "exit"]
    /\ loc' = [loc EXCEPT ![HB] = NoLocal]
    /\ UNCHANGED hbRerr
    /\ UNCHANGED <<srvVars, extVars, runVars, loopVars, serveVars>>
    /\ UNCHANGED dispVars

\* heartbeat, last statement: config.Broker.Disconnect
HbDisconnect ==
    /\ pc[HB] = "hb_disconnect"
    /\ busConnected' = FALSE
    /\ pc' = [pc EXCEPT ![HB] = "hb_done"]
    /\ UNCHANGED <<ctx, loc, ret, hbRerr>>
    /\ UNCHANGED <<directory, busLive, subscribeCount, busFailures, listener>>
    /\ UNCHANGED <<srvVars, runVars, loopVars, serveVars>>
    /\ UNCHANGED dispVars

(***************************************************************************)
(* The acceptor goroutine                                                  *)
(***************************************************************************)

\* serve: the tempDelay to sleep for after one more transient failure
Backoff(d) == Min(IF d = 0 THEN InitialDelayMs ELSE d * 2, MaxDelayMs)

\* serve: Accept succeeds; go h.Serve(c) and loop
ServeAccept ==
    /\ svPc = "accept"
    /\ listener = "open"
    /\ svLast' = "ok"
    /\ UNCHANGED <<svPc, tempDelay, transients>>
    /\ UNCHANGED <<srvVars, extVars, thrVars, runVars, loopVars>>
    /\ UNCHANGED dispVars

\* serve: Accept fails. A request pending on h.exit is received and serve
\* returns; else a temporary error sets tempDelay and sleeps, and any other
\* error returns. Accept on a closed listener fails with a permanent error.
ServeAcceptError(temporary) ==
    /\ svPc = "accept"
    /\ temporary => listener = "open" /\ transients < MaxTransient
    /\ IF ExitSenders # {}
       THEN /\ \E t \in ExitSenders : pc' = [pc EXCEPT ![t] = "stop_wait"]
            /\ exitTaker' = "serve"
            /\ svPc' = "done"
            /\ UNCHANGED <<tempDelay, svLast, transients>>
       ELSE /\ IF temporary
               THEN /\ tempDelay' = Backoff(tempDelay)
                    /\ svPc' = "sleep"
                    /\ svLast' = "temp"
                    /\ transients' = transients + 1
               ELSE /\ svPc' = "done"
                    /\ UNCHANGED <<tempDelay, svLast, transients>>
            /\ UNCHANGED <<pc, exitTaker>>
    /\ UNCHANGED <<ctx, loc, ret, hbRerr>>
    /\ UNCHANGED <<started, hbCh>>
    /\ UNCHANGED <<srvVars, extVars, loopVars>>
    /\ UNCHANGED dispVars

\* serve: time.Sleep(tempDelay) is over; continue with the next Accept
ServeWake ==
    /\ svPc = "sleep"
    /\ svPc' = "accept"
    /\ UNCHANGED <<tempDelay, svLast, transients>>
    /\ UNCHANGED <<srvVars, extVars, thrVars, runVars, loopVars>>
    /\ UNCHANGED dispVars

(***************************************************************************)
(* The specification of the server                                         *)
(***************************************************************************)

Next ==
    \/ \E t \in LifecycleCallers, sb \in Subs : CallSubscribe(t, sb)
    \/ \E t \in LifecycleCallers : Subscribe(t)
    \/ \E t \in LifecycleCallers : CallRegister(t)
    \/ \E t \in Threads : RegEnter(t)
    \/ \E t \in Threads : RegWarm(t)
    \/ \E t \in Threads : RegBuild(t)
    \/ \E t \in Threads : RegRead(t)
    \/ \E t \in Threads : RegAdvertise(t)
    \/ \E t \in Threads : RegLock(t)
    \/ \E t \in Threads : RegArm(t)
    \/ \E t \in Threads : RegCommit(t)
    \/ \E t \in LifecycleCallers : CallDeregister(t)
    \/ \E t \in Threads : DeregEnter(t)
    \/ \E t \in Threads : DeregWithdraw(t)
    \/ \E t \in Threads : DeregLock(t)
    \/ \E t \in Threads : DeregVisit(t)
    \/ \E b \in unsubPending : UnsubTask(b)
    \/ \E t \in Threads : DeregWait(t)
    \/ \E t \in LifecycleCallers : StartListen(t)
    \/ \E t \in LifecycleCallers : StartConnect(t)
    \/ \E t \in LifecycleCallers : StartLaunch(t)
    \/ \E t \in LifecycleCallers : StopSend(t)
    \/ HbInit
    \/ HbTick
    \/ HbCheck
    \/ HbRecvExit
    \/ HbClose
    \/ HbReply
    \/ HbDisconnect
    \/ ServeAccept
    \/ \E temporary \in BOOLEAN : ServeAcceptError(temporary)
    \/ ServeWake

Spec == Init /\ [][Next]_vars

(***************************************************************************)
(* Fairness: every goroutine that can take a step eventually takes one,    *)
(* and a select with a ready case on h.exit eventually chooses it.         *)
(***************************************************************************)

\* a step of a Subscribe, Register, Deregister or Start call that thread t is in
CallStep(t) ==
    \/ Subscribe(t)
    \/ RegEnter(t) \/ RegWarm(t) \/ RegBuild(t) \/ RegRead(t)
    \/ RegAdvertise(t) \/ RegLock(t) \/ RegArm(t) \/ RegCommit(t)
    \/ DeregEnter(t) \/ DeregWithdraw(t) \/ DeregLock(t) \/ DeregVisit(t)
    \/ DeregWait(t) \/ StartConnect(t) \/ StartLaunch(t)

Fairness ==
    /\ \A t \in Threads : WF_vars(CallStep(t))
    /\ WF_vars(\E b \in unsubPending : UnsubTask(b))
    /\ WF_vars(HbInit)
    /\ WF_vars(HbTick)
    /\ WF_vars(HbCheck)
    /\ SF_vars(HbRecvExit)
    /\ WF_vars(HbClose)
    /\ WF_vars(HbReply)
    /\ WF_vars(HbDisconnect)
    /\ WF_vars(ServeWake)

FairSpec == Init /\ [][Next]_vars /\ Fairness

(***************************************************************************)
(* Concurrent callers: after some Subscribe calls, every caller may call   *)
(* Register and Deregister at any time, before the server is started (the  *)
(* methods are public and take the lock themselves)                        *)
(***************************************************************************)

\* the server after the Subscribe calls that built the registry
RaceInit ==
    /\ registry \in SUBSET Subs
    /\ ServerFresh
    /\ DispatchIdle

RaceNext ==
    \/ \E t \in Callers : CallRegister(t)
    \/ \E t \in Callers : RegEnter(t)
    \/ \E t \in Callers : RegWarm(t)
    \/ \E t \in Callers : RegBuild(t)
    \/ \E t \in Callers : RegRead(t)
    \/ \E t \in Callers : RegAdvertise(t)
    \/ \E t \in Callers : RegLock(t)
    \/ \E t \in Callers : RegArm(t)
    \/ \E t \in Callers : RegCommit(t)
    \/ \E t \in Callers : CallDeregister(t)
    \/ \E t \in Callers : DeregEnter(t)
    \/ \E t \in Callers : DeregWithdraw(t)
    \/ \E t \in Callers : DeregLock(t)
    \/ \E t \in Callers : DeregVisit(t)
    \/ \E b \in unsubPending : UnsubTask(b)
    \/ \E t \in Callers : DeregWait(t)

RaceSpec == RaceInit /\ [][RaceNext]_vars

\* the callers call only Register, concurrently, from the unregistered state
RegisterRaceNext ==
    \/ \E t \in Callers : CallRegister(t)
    \/ \E t \in Callers : RegEnter(t)
    \/ \E t \in Callers : RegWarm(t)
    \/ \E t \in Callers : RegBuild(t)
    \/ \E t \in Callers : RegRead(t)
    \/ \E t \in Callers : RegAdvertise(t)
    \/ \E t \in Callers : RegLock(t)
    \/ \E t \in Callers : RegArm(t)
    \/ \E t \in Callers : RegCommit(t)

RegisterRaceSpec == RaceInit /\ [][RegisterRaceNext]_vars

(***************************************************************************)
(* Properties                                                              *)
(***************************************************************************)

\* the places of a thread inside Register
RegisterPcs == {"reg_enter", "reg_warm", "reg_build", "reg_read",
                "reg_advertise", "reg_lock", "reg_arm"}

\* a caller is inside Stop
StopPending == \E t \in Callers : pc[t] \in {"stop_send", "stop_wait"}

\* C1: every Stop call issued after a successful Start eventually results
\* in a closed listener (the claim goes on to require the Deregister).
C1_StopEventuallyClosesListener == StopPending ~> (listener = "closed")

\* C2: when a Stop call has returned, the listener is closed, the
\* Deregister of the shutdown path has finished and the bus is disconnected.
C2_StopReturnsAfterTeardown ==
    \A t \in Callers :
        ret[t].op = "Stop" =>
            listener = "closed" /\ pc[HB] = "hb_done" /\ ~busConnected

\* C3: on a tick whose health predicate reports unhealthy the heartbeat
\* task is never inside Register.
C3_UnhealthyTickNeverRegisters == ~(hbRerr /\ pc[HB] \in RegisterPcs)

\* C4: every Register call of a caller that returns success leaves
\* registered = true.
C4_RegisterSuccessSetsRegistered ==
    [][\A t \in Callers :
          (pc[t] \in RegisterPcs /\ pc'[t] \notin RegisterPcs /\ ~ret'[t].err)
              => registered']_vars

\* C5: no Subscription has more than one live bus binding.
C5_AtMostOneLiveBinding == \A s \in Subs : Cardinality(LiveOf(s)) <= 1

\* C10: the request a Stop call sends on the exit channel is never received
\* by the acceptor loop.
C10_ExitOnlyToHeartbeat == exitTaker # "serve"

\* C6: a Register call made while registered = true only re-advertises the
\* cached service: its steps go from the first critical section to the
\* re-advertise and out, the directory is left with the cached record (or
\* untouched if the directory fails), and no step of the call subscribes on
\* the bus, changes a recorded binding or replaces the cached service.
C6_RegisterWhileRegistered ==
    [][\A t \in Threads :
          (pc[t] \in RegisterPcs /\ loc[t].atCall /\ pc'[t] # pc[t]) =>
              /\ pc[t] \in {"reg_enter", "reg_warm"}
              /\ pc[t] = "reg_enter" => pc'[t] = "reg_warm" /\ directory' = directory
              /\ pc[t] = "reg_warm" =>
                    pc'[t] \notin RegisterPcs /\ directory' \in {directory, rsvc}
              /\ bindings' = bindings
              /\ busLive' = busLive
              /\ subscribeCount' = subscribeCount
              /\ busFailures' = busFailures
              /\ rsvc' = rsvc]_vars

\* C6 witness: a Register call made while registered, with a binding
\* recorded, is about to re-advertise the cached service
C6_Witness ==
    \E t \in Threads :
        /\ pc[t] = "reg_warm"
        /\ loc[t].atCall
        /\ registered
        /\ \E s \in Subs : bindings[s] # <<>>

\* C8: the first transient accept failure that follows a successful accept
\* sleeps for the initial 5ms.
C8_SuccessResetsBackoff ==
    [][(svPc = "accept" /\ svPc' = "sleep" /\ svLast = "ok")
          => tempDelay' = InitialDelayMs]_vars

\* C9: in a run of consecutive transient accept failures the sleep is 5ms for
\* the first failure of the run and doubles, capped at 1s, on each further
\* one; it never decreases within the run, never exceeds 1s, and the loop
\* goes back to accept after each sleep.
C9_BackoffSequence ==
    [][/\ (svPc = "accept" /\ svPc' = "sleep") =>
             /\ svLast # "temp" => tempDelay' = InitialDelayMs
             /\ svLast = "temp" =>
                   tempDelay' = Min(2 * tempDelay, MaxDelayMs) /\ tempDelay' >= tempDelay
             /\ tempDelay' <= MaxDelayMs
       /\ (svPc = "sleep" /\ svPc' # svPc) => svPc' = "accept"]_vars

\* C11 as stated: no Subscription flagged internal is ever subscribed on the
\* bus.
C11_InternalNeverSubscribed ==
    \A s \in Subs : SubInternal[s] => subscribeCount[s] = 0 /\ LiveOf(s) = {}

\* C11 amended: on the cold path the arming loop starts from the whole
\* registry, every bus Subscribe of the loop is for a Subscription the loop
\* has not visited yet and records one new live binding for it, and the loop
\* commits only when every Subscription of the registry, internal or not,
\* has one recorded live binding; the internal flag only keeps a
\* Subscription out of the advertised record.
C11_ArmsEverySubscription ==
    [][\A t \in Threads :
          /\ (pc[t] = "reg_lock" /\ pc'[t] = "reg_arm") => armTodo' = registry
          /\ (pc[t] = "reg_arm" /\ subscribeCount' # subscribeCount) =>
                \E sb \in armTodo :
                    /\ armTodo' = armTodo \ {sb}
                    /\ subscribeCount' = [subscribeCount EXCEPT ![sb] = @ + 1]
                    /\ Len(bindings'[sb]) = 1
                    /\ bindings'[sb][1] \in busLive' \ busLive
          /\ (pc[t] = "reg_arm" /\ registered' /\ ~registered) =>
                /\ armTodo = {}
                /\ \A sb \in registry :
                       Len(bindings[sb]) = 1 /\ bindings[sb][1] \in busLive
                /\ \A i \in 1..Len(rsvc'.eps) : ~SubInternal[rsvc'.eps[i]]]_vars

\* C11 witness: a cold Register has committed with an internal and a non
\* internal Subscription in the registry, both bound on the bus, and only
\* the non internal one advertised
C11_Witness ==
    /\ registered
    /\ \E s, i \in registry :
          /\ ~SubInternal[s] /\ SubInternal[i]
          /\ bindings[s] # <<>> /\ bindings[i] # <<>>
          /\ rsvc.eps = <<s>>

\* C12: a Subscribe of a Subscription that is already in the registry
\* returns an error and changes neither the registry nor any recorded or live
\* binding, armed or not; any other Subscribe adds exactly its Subscription.
\* (The registry is the key set of a map: it cannot hold a key twice; what
\* a second insertion would do is overwrite the recorded bindings.)
C12_DuplicateSubscribeRejected ==
    [][\A t \in Callers :
          (pc[t] = "sub_enter" /\ pc'[t] # pc[t]) =>
              /\ ret'[t].op = "Subscribe"
              /\ IF loc[t].sub \in registry
                 THEN /\ ret'[t].err
                      /\ registry' = registry
                      /\ bindings' = bindings
                      /\ busLive' = busLive
                 ELSE /\ ~ret'[t].err
                      /\ registry' = registry \cup {loc[t].sub}]_vars

\* C12 witness: the last call of the only active caller was a Subscribe
\* that returned an error; the one Subscription of the registry, the
\* duplicate, is armed, and its binding is still recorded and live
C12_Witness ==
    \E t \in Callers :
        /\ ret[t].op = "Subscribe" /\ ret[t].err
        /\ \A u \in Threads : pc[u] = IF u = HB THEN "off" ELSE "idle"
        /\ registered
        /\ \E s \in Subs :
              /\ registry = {s}
              /\ Len(bindings[s]) = 1
              /\ bindings[s][1] \in busLive

\* C13: when a Start call returns an error, no acceptor goroutine and no
\* heartbeat goroutine has been launched.
C13_FailedStartLaunchesNothing ==
    [][\A t \in Callers :
          (ret'[t].op = "Start" /\ ret'[t].err /\ (ret'[t] # ret[t] \/ pc'[t] # pc[t])) =>
              /\ ~started'
              /\ svPc' = "off"
              /\ pc'[HB] = "off"]_vars

\* C13 witness: Start has returned an error after the listener was bound and
\* the bus connected (the initial Register failed or the handler was
\* invalid), and neither goroutine runs
C13_Witness ==
    \E t \in Callers :
        /\ ret[t].op = "Start" /\ ret[t].err
        /\ pc[t] = "idle"
        /\ listener = "open"
        /\ busConnected
        /\ svPc = "off" /\ pc[HB] = "off"

\* the places of a thread inside Deregister
DeregisterPcs == {"dereg_enter", "dereg_withdraw", "dereg_lock", "dereg_loop"}

\* C15: a Deregister call reads the registered flag only after it has
\* attempted the directory withdrawal, so the attempt is made whatever the
\* flag is (a call whose service record cannot be built, or whose withdrawal
\* fails, returns that error before the flag is read). If the flag is true
\* it is cleared, every recorded binding is handed to an Unsubscribe call
\* and its record cleared, and the call returns nil only when all those
\* calls have completed, whatever they returned. If the flag is false the
\* call returns nil and changes neither the flag nor any binding.
C15_DeregisterBehaviour ==
    [][\A t \in Threads :
          /\ (pc'[t] = "dereg_lock" /\ pc[t] # "dereg_lock") =>
                pc[t] = "dereg_withdraw" /\ directory' = NoSvc
          /\ (pc[t] \in {"dereg_enter", "dereg_withdraw"} /\ pc'[t] # pc[t]) =>
                /\ <<registered, bindings, busLive>>' = <<registered, bindings, busLive>>
                /\ pc'[t] \in DeregisterPcs \/ (t \in Callers => ret'[t].err)
          /\ (pc[t] = "dereg_lock" /\ pc'[t] # pc[t]) =>
                IF registered
                THEN /\ ~registered'
                     /\ pc'[t] = "dereg_loop"
                     /\ deregTodo' = registry
                     /\ unsubPending' = {}
                ELSE /\ pc'[t] \notin DeregisterPcs
                     /\ t \in Callers => ~ret'[t].err
                     /\ <<registered, bindings, busLive>>' = <<registered, bindings, busLive>>
          /\ (pc[t] = "dereg_loop" /\ deregTodo' # deregTodo) =>
                \E sb \in deregTodo :
                    /\ deregTodo' = deregTodo \ {sb}
                    /\ bindings'[sb] = <<>>
                    /\ \A i \in 1..Len(bindings[sb]) : bindings[sb][i] \in unsubPending'
          /\ (pc[t] = "dereg_loop" /\ pc'[t] # pc[t]) =>
                /\ deregTodo = {} /\ unsubPending = {}
                /\ \A s \in registry : bindings'[s] = <<>>
                /\ ~registered'
                /\ t \in Callers => ~ret'[t].err]_vars

\* C15 witness: a caller's Deregister of a registered service has returned
\* nil with every record cleared although an Unsubscribe failed (its
\* binding is still live on the bus; no bus Subscribe has failed)
C15_Witness ==
    \E t \in Callers :
        /\ ret[t].op = "Deregister" /\ ~ret[t].err
        /\ pc[t] = "idle"
        /\ ~registered
        /\ registry # {}
        /\ \A s \in registry : bindings[s] = <<>>
        /\ busFailures = 0
        /\ busLive # {}
        /\ directory = NoSvc

\* C15 witness of the other case: a Deregister call of a service that is
\* not registered is past the withdrawal and about to read the flag
C15_WitnessUnregistered ==
    \E t \in Callers :
        pc[t] = "dereg_lock" /\ ~registered /\ directory = NoSvc /\ pc[HB] = "off"

\* C16: at the return of a successful Register call of a caller, with no
\* Deregister call in progress, every Subscription in the registry has
\* exactly one live bus binding.
C16_RegisteredMeansArmed ==
    [][\A t \in Callers :
          (/\ pc[t] \in RegisterPcs /\ pc'[t] \notin RegisterPcs
           /\ ~ret'[t].err
           /\ \A u \in Threads : pc'[u] \notin DeregisterPcs) =>
              \A s \in registry' : Cardinality({b \in busLive' : b[1] = s}) = 1]_vars

\* no Register or Deregister call is in progress
Quiescent == \A t \in Threads : pc[t] \notin RegisterPcs \cup DeregisterPcs

\* C17: once the Register and Deregister calls have all returned, the
\* registered flag agrees with the directory: registered = true implies
\* that the directory holds the advertisement.
C17_FlagAgreesWithDirectory ==
    Quiescent => (registered => directory # NoSvc)

\* C17, second part: once the calls have all returned, a binding is recorded
\* only if the service is advertised.
C17_BindingsOnlyIfAdvertised ==
    Quiescent => ((\E s \in Subs : bindings[s] # <<>>) => directory # NoSvc)

\* C18: with only Register calls running, from the unregistered state, and
\* as long as no bus Subscribe has failed, no Subscription is subscribed on the
\* bus more than once, and once a Register call has returned success the
\* service is registered and every Subscription in the registry has been
\* subscribed exactly once and has exactly one recorded binding, which is
\* live.
C18_ConcurrentRegistersArmOnce ==
    busFailures = 0 =>
        /\ \A s \in Subs : subscribeCount[s] <= 1 /\ Cardinality(LiveOf(s)) <= 1
        /\ (\E t \in Callers : pc[t] = "idle" /\ ret[t].op = "Register" /\ ~ret[t].err) =>
              /\ registered
              /\ \A s \in registry :
                     /\ subscribeCount[s] = 1
                     /\ Len(bindings[s]) = 1
                     /\ bindings[s][1] \in busLive

\* C18 witness: two Register calls ran the cold path concurrently; one has
\* committed, having armed both Subscriptions once, and has returned, while
\* the other, which read registered = false before, is about to take the lock
C18_Witness ==
    \E t, u \in Callers :
        /\ pc[t] = "reg_lock" /\ ~loc[t].registered
        /\ pc[u] = "idle" /\ ret[u].op = "Register" /\ ~ret[u].err
        /\ registered
        /\ busFailures = 0
        /\ registry = Subs
        /\ \A s \in Subs : subscribeCount[s] = 1

\* the context of Subscription s: its override, else the service's default
ContextOf(s) == IF SubContext[s] # "nil" THEN SubContext[s] ELSE DefaultContext

\* C19: every Unsubscribe call of a Deregister is made with the context of
\* the binding's own Subscription.
C19_UnsubscribeWithOwnContext ==
    \A c \in unsubCalls : c.ctx = ContextOf(c.binding[1])

(***************************************************************************)
(* The subscriber dispatch: the broker.Handler built by createSubHandler,  *)
(* run on one event. Strings are sequences of tokens.                      *)
(***************************************************************************)

\* codec.ErrUnknownContentType, and the error of a failed ReadHeader/ReadBody
ErrUnknownContentType == <<"unknown content type">>
ErrDecode == <<"decode error">>

\* strings.Join(msgs, "\n")
RECURSIVE Join(_)
Join(msgs) ==
    IF Len(msgs) = 0 THEN <<>>
    ELSE IF Len(msgs) = 1 THEN msgs[1]
    ELSE msgs[1] \o <<"\n">> \o Join(Tail(msgs))

\* fmt.Errorf("subscriber error: %s", strings.Join(errors, "\n"))
SubscriberError(errs) == <<"subscriber error: ">> \o Join(errs)

\* the server is idle while the event is dispatched: the dispatch reads
\* only the subscriber's handlers and the codecs of the options
DispatchInit ==
    /\ ServerInit
    /\ \E n \in 1..MaxHandlers :
          handlers \in [1..n -> [err : {"nil"} \cup HandlerErrors, decodes : BOOLEAN]]
    /\ codecKnown \in BOOLEAN
    /\ dPc = "start"
    /\ dI = 0
    /\ running = {}
    /\ invoked = [i \in DOMAIN handlers |-> 0]
    /\ results = <<>>
    /\ received = 0
    /\ errors = <<>>
    /\ outcome = [done |-> FALSE, err |-> <<>>]

\* the dispatch returns err (the empty string stands for nil)
DispatchReturns(err) ==
    /\ outcome' = [done |-> TRUE, err |-> err]
    /\ dPc' = "done"

\* the codec is looked up by Content-Type; the results channel is made
DispatchStart ==
    /\ dPc = "start"
    /\ IF codecKnown
       THEN /\ dPc' = "launch"
            /\ dI' = 1
            /\ UNCHANGED outcome
       ELSE /\ DispatchReturns(ErrUnknownContentType)
            /\ UNCHANGED dI
    /\ UNCHANGED <<handlers, codecKnown, running, invoked, results, received, errors>>
    /\ UNCHANGED <<srvVars, extVars, thrVars, runVars, loopVars, serveVars>>

\* one iteration of the launch loop: decode the body for handler dI, return
\* the error if that fails, else start the goroutine that calls the handler
DispatchLaunch ==
    /\ dPc = "launch"
    /\ dI <= Len(handlers)
    /\ IF handlers[dI].decodes
       THEN /\ running' = running \cup {dI}
            /\ dI' = dI + 1
            /\ UNCHANGED <<dPc, outcome>>
       ELSE /\ DispatchReturns(ErrDecode)
            /\ UNCHANGED <<running, dI>>
    /\ UNCHANGED <<handlers, codecKnown, invoked, results, received, errors>>
    /\ UNCHANGED <<srvVars, extVars, thrVars, runVars, loopVars, serveVars>>

\* results := make(chan error, len(sb.handlers)): the channel's capacity
ResultsCap == Len(handlers)

\* HandlerTask with results an unbuffered channel: the send completes only
\* together with a receive of the collection loop
HandlerTaskUnbuffered(i) ==
    /\ i \in running
    /\ dPc = "launch" \/ dPc = "collect"
    /\ dI > Len(handlers)
    /\ received < Len(handlers)
    /\ invoked' = [invoked EXCEPT ![i] = @ + 1]
    /\ running' = running \ {i}
    /\ errors' = IF handlers[i].err # "nil" THEN Append(errors, <<handlers[i].err>>) ELSE errors
    /\ received' = received + 1
    /\ dPc' = "collect"
    /\ UNCHANGED <<handlers, codecKnown, dI, results, outcome>>
    /\ UNCHANGED <<srvVars, extVars, thrVars, runVars, loopVars, serveVars>>

\* a handler goroutine: results <- fn(ctx, msg); the send needs room in the
\* channel
HandlerTask(i) ==
    /\ i \in running
    /\ Len(results) < ResultsCap
    /\ invoked' = [invoked EXCEPT ![i] = @ + 1]
    /\ results' = Append(results, handlers[i].err)
    /\ running' = running \ {i}
    /\ UNCHANGED <<handlers, codecKnown, dPc, dI, received, errors, outcome>>
    /\ UNCHANGED <<srvVars, extVars, thrVars, runVars, loopVars, serveVars>>

\* DispatchCollect that gives up at the first failed handler: the dispatch
\* returns that handler's error without waiting for the others
DispatchCollectFirstError ==
    /\ dPc = "launch" \/ dPc = "collect"
    /\ dI > Len(handlers)
    /\ received < Len(handlers)
    /\ Len(results) > 0
    /\ results' = Tail(results)
    /\ received' = received + 1
    /\ IF Head(results) # "nil"
       THEN /\ errors' = Append(errors, <<Head(results)>>)
            /\ DispatchReturns(SubscriberError(<<<<Head(results)>>>>))
       ELSE /\ dPc' = "collect"
            /\ UNCHANGED <<errors, outcome>>
    /\ UNCHANGED <<handlers, codecKnown, dI, running, invoked>>
    /\ UNCHANGED <<srvVars, extVars, thrVars, runVars, loopVars, serveVars>>

\* one iteration of the collection loop: err := <-results
DispatchCollect ==
    /\ dPc = "launch" \/ dPc = "collect"
    /\ dI > Len(handlers)
    /\ received < Len(handlers)
    /\ Len(results) > 0
    /\ errors' = IF Head(results) # "nil" THEN Append(errors, <<Head(results)>>) ELSE errors
    /\ results' = Tail(results)
    /\ received' = received + 1
    /\ dPc' = "collect"
    /\ UNCHANGED <<handlers, codecKnown, dI, running, invoked, outcome>>
    /\ UNCHANGED <<srvVars, extVars, thrVars, runVars, loopVars, serveVars>>

\* after the collection loop: the combined error, or nil
DispatchFinish ==
    /\ dPc = "launch" \/ dPc = "collect"
    /\ dI > Len(handlers)
    /\ received = Len(handlers)
    /\ DispatchReturns(IF Len(errors) > 0 THEN SubscriberError(errors) ELSE <<>>)
    /\ UNCHANGED <<handlers, codecKnown, dI, running, invoked, results, received, errors>>
    /\ UNCHANGED <<srvVars, extVars, thrVars, runVars, loopVars, serveVars>>

DispatchNext ==
    \/ DispatchStart
    \/ DispatchLaunch
    \/ \E i \in DOMAIN handlers : HandlerTask(i)
    \/ DispatchCollect
    \/ DispatchFinish

DispatchSpec == DispatchInit /\ [][DispatchNext]_vars

\* the goroutine running the dispatch and every handler goroutine that can
\* take a step eventually takes one
DispatchFairness ==
    /\ WF_vars(DispatchStart \/ DispatchLaunch \/ DispatchCollect \/ DispatchFinish)
    /\ \A i \in 1..MaxHandlers : WF_vars(HandlerTask(i))

FairDispatchSpec == DispatchInit /\ [][DispatchNext]_vars /\ DispatchFairness

\* the handlers that return an error
Failing == {i \in DOMAIN handlers : handlers[i].err # "nil"}

\* every order in which the members of S can be listed
RECURSIVE Orders(_)
Orders(S) ==
    IF S = {} THEN {<<>>}
    ELSE UNION {{<<x>> \o o : o \in Orders(S \ {x})} : x \in S}

\* the messages of the handlers listed in order
Messages(order) == [k \in 1..Len(order) |-> <<handlers[order[k]].err>>]

\* C7: when the content type has a codec and the body decodes for every
\* handler, a finished dispatch has called each of the N handlers exactly
\* once, returns nil iff no handler failed, and otherwise returns
\* "subscriber error: " followed by the messages of exactly the failing
\* handlers, in some order, joined by newlines.
C7_DispatchAggregates ==
    (dPc = "done" /\ codecKnown /\ \A i \in DOMAIN handlers : handlers[i].decodes) =>
        /\ \A i \in DOMAIN handlers : invoked[i] = 1
        /\ (outcome.err = <<>>) <=> (Failing = {})
        /\ Failing # {} =>
              \E order \in Orders(Failing) :
                  outcome.err = SubscriberError(Messages(order))

\* C7 witness: a dispatch over three handlers, two of which failed with
\* different messages, has finished
C7_Witness ==
    /\ dPc = "done"
    /\ codecKnown
    /\ Len(handlers) = 3
    /\ \A i \in DOMAIN handlers : handlers[i].decodes /\ invoked[i] = 1
    /\ Cardinality(Failing) = 2
    /\ \E i, j \in Failing : handlers[i].err # handlers[j].err
    /\ Len(outcome.err) = 4

\* the handler goroutines the dispatch has started
Launched == IF dI = 0 THEN {} ELSE 1..(dI - 1)

\* C14: when a dispatch has produced its result, the outcome of every handler
\* task it started has been collected: none is still running and none sits
\* uncollected in the results channel.
C14_ResultAfterAllCollected ==
    outcome.done => (received = Cardinality(Launched) /\ running = {} /\ results = <<>>)

\* C20: every handler task a dispatch has started eventually delivers its
\* outcome on the results channel and terminates, also when the dispatch has
\* returned early on a decode error.
C20_TasksDeliver ==
    \A i \in 1..MaxHandlers : (i \in running) ~> (i \notin running)

\* C20 witness: the dispatch returned early with a decode error, and every
\* task it had started has delivered its outcome, which is left in the channel
C20_Witness ==
    /\ dPc = "done"
    /\ outcome.err = ErrDecode
    /\ Launched # {}
    /\ running = {}
    /\ Len(results) = Cardinality(Launched)
    /\ \A i \in Launched : invoked[i] = 1

====
